---------------------------- MODULE Spec2Model ----------------------------
(***************************************************************************)
(* QuickCodeReplace: the content-rewrite engine (words_replacer.py) and    *)
(* the rename tool (rename_old2new.py), on a POSIX host.                    *)
(*                                                                         *)
(* A text is a sequence of characters, each a string naming one character. *)
(* A path is a text whose components are separated by "/", as str(Path)    *)
(* gives it.  The file system is a function from the paths that exist to   *)
(* their nodes.                                                            *)
(***************************************************************************)
EXTENDS Integers, Sequences, FiniteSets, TLC

VARIABLES
    fs,            \* the file system: path -> [kind, content]
    denied,        \* paths on which the OS refuses open-for-write, remove and rename
    mainPc,        \* position of the running __main__
    code_path,     \* the root directory handed to the tool
    words_dict,    \* WordsReplacer.words_dict: a sequence of <<old, new>> (dict order)
    buffer_size,   \* WordsReplacer.buffer_size
    runPc,         \* position inside WordsReplacer.run
    runNo,         \* which invocation of the replace-words tool this is
    enc,           \* result of _get_file_encoding per enumerated file ("pending" before)
    text_files,    \* the dict _collect_text_files returned: path -> encoding
    tpc,           \* position of each _process_file task
    pos,           \* characters each task has read so far
    out,           \* output_buffer of each task
    changed,       \* content_changed of each task
    orig,          \* the file contents when the current run() started
    hist,          \* one record per finished run(): its orig and its tasks' outcomes
    rename_files,  \* rename_files_dict: a sequence of <<old_path, new_path>>
    rename_dirs,   \* rename_dirs_dict: a sequence of <<old_path, new_path>>
    rpc,           \* position of each rename_single task of batch_rename_filename
    di,            \* index of the entry serial_rename_dirname is at
    dres           \* what serial_rename_dirname did with each entry ("todo" before)

vars == <<fs, denied, mainPc, code_path, words_dict, buffer_size, runPc, runNo,
          enc, text_files, tpc, pos, out, changed, orig, hist,
          rename_files, rename_dirs, rpc, di, dres>>

-----------------------------------------------------------------------------
(* Bounds of the model *)

\* longest content of the enumerated files
MaxLen == 2
\* largest enumerated buffer_size
MaxBuf == 2

-----------------------------------------------------------------------------
(* Texts and the str operations the code uses *)

Min(a, b) == IF a < b THEN a ELSE b

EmptyFn == [x \in {} |-> 0]

Range(s) == {s[i] : i \in DOMAIN s}

Drop(s, n) == SubSeq(s, n + 1, Len(s))

StartsWith(s, k) == Len(k) <= Len(s) /\ SubSeq(s, 1, Len(k)) = k

\* Python's  k in s
Contains(s, k) == \E i \in 0..(Len(s) - Len(k)) : SubSeq(s, i + 1, i + Len(k)) = k

RECURSIVE Interleave(_, _)
Interleave(s, new) ==
    IF s = <<>> THEN new ELSE new \o <<Head(s)>> \o Interleave(Tail(s), new)

\* variant of PyReplace that stops after the first occurrence, as
\* s.replace(old, new, 1) would
RECURSIVE ReplaceFirstOnly(_, _, _)
ReplaceFirstOnly(s, old, new) ==
    IF Len(s) < Len(old) \/ old = <<>> THEN s
    ELSE IF StartsWith(s, old) THEN new \o Drop(s, Len(old))
    ELSE <<Head(s)>> \o ReplaceFirstOnly(Tail(s), old, new)

\* Python's  s.replace(old, new): the leftmost non-overlapping occurrences
RECURSIVE PyReplace(_, _, _)
PyReplace(s, old, new) ==
    IF old = <<>> THEN Interleave(s, new)
    ELSE IF Len(s) < Len(old) THEN s
    ELSE IF StartsWith(s, old) THEN new \o PyReplace(Drop(s, Len(old)), old, new)
    ELSE <<Head(s)>> \o PyReplace(Tail(s), old, new)

CR == "\r"
LF == "\n"

\* Characters outside ASCII that occur in the model
NonAscii == {"U+00F6"}

\* open(..., 'r') without newline=: universal newlines, "\r\n" and "\r" read as "\n"
RECURSIVE Decode(_)
Decode(s) ==
    IF s = <<>> THEN <<>>
    ELSE IF Head(s) = CR
         THEN IF Len(s) >= 2 /\ s[2] = LF THEN <<LF>> \o Decode(Drop(s, 2))
              ELSE <<LF>> \o Decode(Tail(s))
    ELSE <<Head(s)>> \o Decode(Tail(s))

\* Encoding names Python's codec registry knows, among those file(1) may report
KnownCodecs == {"utf-8", "us-ascii"}

\* Whether the codec can represent every character of the text
Codable(s, e) == e = "utf-8" \/ (e = "us-ascii" /\ Range(s) \cap NonAscii = {})

-----------------------------------------------------------------------------
(* Paths and the file system *)

SEP == "/"

RECURSIVE LastSep(_)
LastSep(p) == IF p = <<>> THEN 0
              ELSE IF p[Len(p)] = SEP THEN Len(p)
              ELSE LastSep(SubSeq(p, 1, Len(p) - 1))

\* os.path.dirname; the root directory "/" is the empty text here
Dirname(p) == SubSeq(p, 1, LastSep(p) - 1)

\* os.path.basename, Path.name
Basename(p) == Drop(p, LastSep(p))

\* os.path.join
OsPathJoin(a, b) == IF StartsWith(b, <<SEP>>) THEN b ELSE a \o <<SEP>> \o b

\* q lies strictly below directory d
IsUnder(q, d) == StartsWith(q, d \o <<SEP>>)

\* os.path.exists
Exists(f, p) == p = <<>> \/ p \in DOMAIN f

IsDir(f, p) == p = <<>> \/ (p \in DOMAIN f /\ f[p].kind = "dir")

IsFile(f, p) == p \in DOMAIN f /\ f[p].kind = "file"

Children(f, d) == {q \in DOMAIN f : IsUnder(q, d)}

FileNode(c) == [kind |-> "file", content |-> c]

DirNode == [kind |-> "dir", content |-> <<>>]

\* Path.rglob('*') filtered by is_file()
FilesUnder(f, d) == {q \in DOMAIN f : IsUnder(q, d) /\ f[q].kind = "file"}

-----------------------------------------------------------------------------
(* WordsReplacer *)

\* max_workers of both tools
ReplacerWorkers == 20

\* buffer_size of both tools
MainBufferSize == 16384

\* What _get_file_encoding may return for a file: the charset file(1) reports
\* (a codec Python knows, one it does not know, or binary), None when file(1)
\* reports no charset, and utf-8 or None from the fallback
ClassifierResults == {"utf-8", "us-ascii", "unknown-8bit", "binary", "None"}

\* variant of CollectFilter that tests  encoding != 'binary'  only
KeepsBinaryUnknown(e) == e # "binary"

\* _collect_text_files keeps a result when  encoding not in ('binary', None)
CollectFilter(e) == e \notin {"binary", "None"}

\* variant of NextChunk that reads to the end of the file, as f.read() would
ReadsRest(text, p, bs) == Drop(text, p)

\* f.read(self.buffer_size): the next buffer_size characters of the decoded text
NextChunk(text, p, bs) == SubSeq(text, p + 1, Min(p + bs, Len(text)))

\* variant of MarkChanged that sets content_changed whether or not the key occurs
MarkAlways(was, found) == TRUE

\* content_changed after a rule was tried on a chunk
MarkChanged(was, found) == was \/ found

\* the rule loop of _process_file over one chunk
RECURSIVE ApplyRules(_, _, _)
ApplyRules(chunk, rules, was) ==
    IF rules = <<>> THEN [chunk |-> chunk, changed |-> was]
    ELSE LET old == Head(rules)[1]
             new == Head(rules)[2]
             found == Contains(chunk, old)
         IN  ApplyRules(IF found THEN PyReplace(chunk, old, new) ELSE chunk,
                        Tail(rules), MarkChanged(was, found))

\* a task holds a worker thread
Running(p) == tpc[p] \in {"reading", "wopen", "writing"}

Finished(p) == tpc[p] \in {"unchanged", "written", "failed"}

\* variant of AllTasksDone for an executor that is not waited for
NoBarrier == TRUE

\* results of executor.map are consumed in order: every classification is in
AllClassified == \A p \in DOMAIN enc : enc[p] # "pending"

\* leaving the with-block shuts the executor down and waits for every task
AllTasksDone == \A p \in DOMAIN tpc : Finished(p)

RunActive == mainPc \in {"run", "ctx1", "ctx2"}

renameVars == <<rename_files, rename_dirs, rpc, di, dres>>

\* run(), _collect_text_files: enumerate the files and submit the classifications
RunStart ==
    /\ RunActive /\ runPc = "start"
    /\ enc' = [p \in FilesUnder(fs, code_path) |-> "pending"]
    /\ orig' = [p \in {q \in DOMAIN fs : fs[q].kind = "file"} |-> fs[p].content]
    /\ text_files' = EmptyFn
    /\ tpc' = EmptyFn /\ pos' = EmptyFn /\ out' = EmptyFn /\ changed' = EmptyFn
    /\ runPc' = "collect"
    /\ UNCHANGED <<fs, denied, mainPc, code_path, words_dict, buffer_size, runNo, hist>>
    /\ UNCHANGED renameVars

\* _get_file_encoding on one file, in a worker
Classify(p) ==
    /\ RunActive /\ runPc = "collect"
    /\ p \in DOMAIN enc /\ enc[p] = "pending"
    /\ \E e \in ClassifierResults : enc' = [enc EXCEPT ![p] = e]
    /\ UNCHANGED <<fs, denied, mainPc, code_path, words_dict, buffer_size, runPc, runNo,
                   text_files, tpc, pos, out, changed, orig, hist>>
    /\ UNCHANGED renameVars

\* _collect_text_files returns; run() submits one _process_file per text file
Collect ==
    /\ RunActive /\ runPc = "collect"
    /\ AllClassified
    /\ LET kept == {p \in DOMAIN enc : CollectFilter(enc[p])} IN
        /\ text_files' = [p \in kept |-> enc[p]]
        /\ tpc' = [p \in kept |-> "queued"]
        /\ pos' = [p \in kept |-> 0]
        /\ out' = [p \in kept |-> <<>>]
        /\ changed' = [p \in kept |-> FALSE]
    /\ runPc' = "process"
    /\ UNCHANGED <<fs, denied, mainPc, code_path, words_dict, buffer_size, runNo,
                   enc, orig, hist>>
    /\ UNCHANGED renameVars

taskFrame == <<denied, mainPc, code_path, words_dict, buffer_size, runPc, runNo,
               enc, text_files, orig, hist>>

\* _process_file: open(file_path, 'r', encoding=encoding)
TaskOpen(p) ==
    /\ RunActive /\ runPc = "process"
    /\ p \in DOMAIN tpc /\ tpc[p] = "queued"
    /\ Cardinality({q \in DOMAIN tpc : Running(q)}) < ReplacerWorkers
    /\ tpc' = [tpc EXCEPT ![p] = IF text_files[p] \in KnownCodecs /\ IsFile(fs, p)
                                  THEN "reading" ELSE "failed"]
    /\ UNCHANGED <<fs, pos, out, changed>>
    /\ UNCHANGED taskFrame /\ UNCHANGED renameVars

\* _process_file: one turn of  while chunk := f.read(self.buffer_size)
TaskRead(p) ==
    /\ RunActive /\ runPc = "process"
    /\ p \in DOMAIN tpc /\ tpc[p] = "reading"
    /\ LET text == Decode(fs[p].content)
           chunk == NextChunk(text, pos[p], buffer_size)
           r == ApplyRules(chunk, words_dict, changed[p])
       IN  IF ~Codable(chunk, text_files[p])
           THEN /\ tpc' = [tpc EXCEPT ![p] = "failed"]
                /\ UNCHANGED <<pos, out, changed>>
           ELSE IF chunk = <<>>
           THEN /\ tpc' = [tpc EXCEPT ![p] = IF changed[p] THEN "wopen" ELSE "unchanged"]
                /\ UNCHANGED <<pos, out, changed>>
           ELSE /\ out' = [out EXCEPT ![p] = @ \o r.chunk]
                /\ changed' = [changed EXCEPT ![p] = r.changed]
                /\ pos' = [pos EXCEPT ![p] = @ + Len(chunk)]
                /\ UNCHANGED tpc
    /\ UNCHANGED fs
    /\ UNCHANGED taskFrame /\ UNCHANGED renameVars

\* _process_file: open(file_path, 'w', encoding=encoding) truncates the file
TaskOpenWrite(p) ==
    /\ RunActive /\ runPc = "process"
    /\ p \in DOMAIN tpc /\ tpc[p] = "wopen"
    /\ IF p \in denied
       THEN /\ tpc' = [tpc EXCEPT ![p] = "failed"]
            /\ UNCHANGED fs
       ELSE /\ tpc' = [tpc EXCEPT ![p] = "writing"]
            /\ fs' = [fs EXCEPT ![p].content = <<>>]
    /\ UNCHANGED <<pos, out, changed>>
    /\ UNCHANGED taskFrame /\ UNCHANGED renameVars

\* _process_file: f.write(output_buffer.getvalue()) and the close of the file.
\* On POSIX the written "\n" stays "\n".  The text is encoded first (nothing
\* is written when that raises); an OS error while the data is flushed
\* leaves the part already flushed.
TaskWrite(p) ==
    /\ RunActive /\ runPc = "process"
    /\ p \in DOMAIN tpc /\ tpc[p] = "writing"
    /\ IF ~Codable(out[p], text_files[p])
       THEN /\ tpc' = [tpc EXCEPT ![p] = "failed"]
            /\ UNCHANGED fs
       ELSE \/ /\ fs' = [fs EXCEPT ![p].content = out[p]]
               /\ tpc' = [tpc EXCEPT ![p] = "written"]
            \/ \E k \in 0..(Len(out[p]) - 1) :
                  /\ fs' = [fs EXCEPT ![p].content = SubSeq(out[p], 1, k)]
                  /\ tpc' = [tpc EXCEPT ![p] = "failed"]
    /\ UNCHANGED <<pos, out, changed>>
    /\ UNCHANGED taskFrame /\ UNCHANGED renameVars

\* run() returns once every task has finished
RunReturn ==
    /\ RunActive /\ runPc = "process"
    /\ AllTasksDone
    /\ runPc' = "returned"
    /\ hist' = Append(hist, [orig |-> orig, done |-> tpc])
    /\ UNCHANGED <<fs, denied, mainPc, code_path, words_dict, buffer_size, runNo,
                   enc, text_files, tpc, pos, out, changed, orig>>
    /\ UNCHANGED renameVars

-----------------------------------------------------------------------------
(* words_replacer.py as a program: one run() per invocation *)

\* __main__ of words_replacer.py after replacer.run(): sys.exit(0)
ReplaceExit ==
    /\ mainPc = "run" /\ runPc = "returned"
    /\ mainPc' = "ran"
    /\ UNCHANGED <<fs, denied, code_path, words_dict, buffer_size, runPc, runNo,
                   enc, text_files, tpc, pos, out, changed, orig, hist>>
    /\ UNCHANGED renameVars

\* the tool is invoked a second time on the same tree with the same map
Rerun ==
    /\ mainPc = "ran" /\ runNo = 1
    /\ runNo' = 2
    /\ mainPc' = "run" /\ runPc' = "start"
    /\ UNCHANGED <<fs, denied, code_path, words_dict, buffer_size,
                   enc, text_files, tpc, pos, out, changed, orig, hist>>
    /\ UNCHANGED renameVars

\* The inputs of the replace-words tool that are enumerated
Alphabet == {"a", "b"}

RECURSIVE TextsOfLen(_)
TextsOfLen(n) ==
    IF n = 0 THEN {<<>>}
    ELSE {<<c>> \o t : c \in Alphabet, t \in TextsOfLen(n - 1)}

TextsUpTo(n) == UNION {TextsOfLen(k) : k \in 0..n}

Keys == TextsUpTo(2) \ {<<>>}

Values == TextsUpTo(1)

Rules == {<<k, v>> : k \in Keys, v \in Values}

\* a dict holds each key once
RuleTables ==
    {<<r>> : r \in Rules} \cup
    {t \in {<<r1, r2>> : r1 \in Rules, r2 \in Rules} : t[1][1] # t[2][1]}

HelloWorldText ==
    <<"H","e","l","l","o"," ","w","o","r","l","d",",",
      " ","H","e","l","l","o","!">>

HelloEveryoneText ==
    <<"h","e","l","l","o"," ","e","v","e","r","y","o","n","e",",",
      " ","h","e","l","l","o","!">>

HelloRules ==
    << << <<"H","e","l","l","o"," ","w","o","r","l","d">>,
          <<"h","e","l","l","o"," ","e","v","e","r","y","o","n","e">> >>,
       << <<"H","e","l","l","o">>, <<"h","e","l","l","o">> >> >>

\* [content, words_dict, buffer_size] of the cases named one by one
NamedCases ==
    { [c |-> HelloWorldText, d |-> HelloRules, b |-> MainBufferSize],
      [c |-> <<"A">>, d |-> << <<<<"A">>, <<"B">>>>, <<<<"B">>, <<"C">>>> >>, b |-> MainBufferSize],
      [c |-> <<"A">>, d |-> << <<<<"A">>, <<"A">>>> >>, b |-> MainBufferSize],
      [c |-> <<"a">>, d |-> << <<<<"a">>, <<"U+00F6">>>> >>, b |-> MainBufferSize],
      [c |-> <<"U+00F6", "a">>, d |-> << <<<<"a">>, <<"b">>>> >>, b |-> MainBufferSize],
      [c |-> <<"a", "a", "a", "a">>, d |-> << <<<<"a", "a">>, <<"b">>>> >>, b |-> 3],
      [c |-> <<"a", CR, LF, "a", CR>>, d |-> << <<<<"a">>, <<"b">>>> >>, b |-> 2],
      [c |-> <<"a">>, d |-> << <<<<"a">>, <<CR>>>>, <<<<LF>>, <<"b">>>> >>, b |-> MainBufferSize] }

EnumeratedCases ==
    {[c |-> t, d |-> r, b |-> n] : t \in TextsUpTo(MaxLen), r \in RuleTables, n \in 1..MaxBuf}

RootR == <<SEP, "r">>

FileF == RootR \o <<SEP, "f">>

InitRewrite ==
    /\ code_path = RootR
    /\ \E case \in NamedCases \cup EnumeratedCases :
         /\ fs = (FileF :> FileNode(case.c)) @@ (RootR :> DirNode)
         /\ words_dict = case.d
         /\ buffer_size = case.b
    /\ denied \in {{}, {FileF}}
    /\ mainPc = "run" /\ runPc = "start" /\ runNo = 1
    /\ enc = EmptyFn /\ text_files = EmptyFn
    /\ tpc = EmptyFn /\ pos = EmptyFn /\ out = EmptyFn /\ changed = EmptyFn
    /\ orig = EmptyFn /\ hist = <<>>
    /\ rename_files = <<>> /\ rename_dirs = <<>> /\ rpc = <<>> /\ di = 0 /\ dres = <<>>

NextRewrite ==
    \/ RunStart
    \/ \E p \in DOMAIN enc : Classify(p)
    \/ Collect
    \/ \E p \in DOMAIN tpc : TaskOpen(p)
    \/ \E p \in DOMAIN tpc : TaskRead(p)
    \/ \E p \in DOMAIN tpc : TaskOpenWrite(p)
    \/ \E p \in DOMAIN tpc : TaskWrite(p)
    \/ RunReturn
    \/ ReplaceExit
    \/ Rerun

SpecRewrite == InitRewrite /\ [][NextRewrite]_vars

-----------------------------------------------------------------------------
(* rename_old2new.py: planning *)

Txt_Cat == <<"C","a","t">>
Txt_Dog == <<"D","o","g">>
Txt_Hello == <<"H","e","l","l","o">>
Txt_hello == <<"h","e","l","l","o">>
Txt_HelloWorld == <<"H","e","l","l","o"," ","w","o","r","l","d">>
Txt_helloEveryone == <<"h","e","l","l","o"," ","e","v","e","r","y","o","n","e">>

REPLACEMENT_RULES ==
    << <<Txt_HelloWorld, Txt_helloEveryone>>, <<Txt_Hello, Txt_hello>>, <<Txt_Cat, Txt_Dog>> >>

\* apply_replacement_rules
RECURSIVE ReplaceWith(_, _)
ReplaceWith(text, rules) ==
    IF rules = <<>> THEN text
    ELSE ReplaceWith(PyReplace(text, Head(rules)[1], Head(rules)[2]), Tail(rules))

apply_replacement_rules(text) == ReplaceWith(text, REPLACEMENT_RULES)

\* abbreviate_words.  re.sub(key, value, result) is result.replace(key, value)
\* for the keys and values of REPLACEMENT_RULES: they hold no character that
\* is special in a pattern or in a replacement template.
RECURSIVE AbbreviateWith(_, _)
AbbreviateWith(base, rules) ==
    IF rules = <<>> THEN base
    ELSE AbbreviateWith(IF Contains(base, Head(rules)[1])
                        THEN PyReplace(base, Head(rules)[1], Head(rules)[2])
                        ELSE base,
                        Tail(rules))

abbreviate_words(base) == AbbreviateWith(base, REPLACEMENT_RULES)

RECURSIVE LastDot(_)
LastDot(n) == IF n = <<>> THEN 0
              ELSE IF n[Len(n)] = "." THEN Len(n)
              ELSE LastDot(SubSeq(n, 1, Len(n) - 1))

\* Path.suffix: from the last dot, unless the name starts or ends with it
Suffix(n) == LET i == LastDot(n) IN IF 1 < i /\ i < Len(n) THEN Drop(n, i - 1) ELSE <<>>

\* Path.stem
Stem(n) == SubSeq(n, 1, Len(n) - Len(Suffix(n)))

\* Path.with_name
WithName(p, n) == Dirname(p) \o <<SEP>> \o n

\* Path.parts, as a set
RECURSIVE Parts(_)
Parts(p) == IF p = <<>> THEN {}
            ELSE IF LastSep(p) = 0 THEN {p}
            ELSE {Basename(p)} \cup Parts(Dirname(p))

Txt_git == <<".","g","i","t">>

SKIP_FILES ==
    { <<"r","e","n","a","m","e","_","o","l","d","2","n","e","w",".","p","y">>,
      <<"l","a","u","n","c","h",".","j","s","o","n">>,
      <<"D","o","x","y","f","i","l","e">> }

should_process(p) == Txt_git \notin Parts(p) /\ Basename(p) \notin SKIP_FILES

NewName(p) == abbreviate_words(Stem(Basename(p))) \o Suffix(Basename(p))

\* ord() of the characters that occur in paths
CodePoint(c) ==
    CASE c = " " -> 32 [] c = "." -> 46 [] c = "/" -> 47 [] c = "2" -> 50
      [] c = "C" -> 67 [] c = "D" -> 68 [] c = "H" -> 72 [] c = "_" -> 95
      [] c = "a" -> 97 [] c = "d" -> 100 [] c = "e" -> 101 [] c = "f" -> 102
      [] c = "g" -> 103 [] c = "h" -> 104 [] c = "i" -> 105 [] c = "j" -> 106
      [] c = "k" -> 107 [] c = "l" -> 108 [] c = "m" -> 109 [] c = "n" -> 110
      [] c = "o" -> 111 [] c = "p" -> 112 [] c = "r" -> 114 [] c = "s" -> 115
      [] c = "t" -> 116 [] c = "u" -> 117 [] c = "v" -> 118 [] c = "w" -> 119
      [] c = "x" -> 120 [] c = "y" -> 121 [] c = "z" -> 122

\* a < b on str
RECURSIVE TextLess(_, _)
TextLess(a, b) ==
    IF b = <<>> THEN FALSE
    ELSE IF a = <<>> THEN TRUE
    ELSE IF Head(a) = Head(b) THEN TextLess(Tail(a), Tail(b))
    ELSE CodePoint(Head(a)) < CodePoint(Head(b))

\* the sort key (-len(str(item[1])), item[1]) puts e1 before e2, or ties them
KeyLE(e1, e2) ==
    \/ Len(e1[2]) > Len(e2[2])
    \/ Len(e1[2]) = Len(e2[2]) /\ ~TextLess(e2[2], e1[2])

RECURSIVE Perms(_)
Perms(S) == IF S = {} THEN {<<>>}
            ELSE UNION {{<<e>> \o t : t \in Perms(S \ {e})} : e \in S}

\* sorted() is stable and rglob yields a directory's entries in no fixed
\* order: entries with equal keys may come out either way round
SortedItems(S) ==
    {t \in Perms(S) : \A i, j \in DOMAIN t : i < j => KeyLE(t[i], t[j])}

\* get_rename_filepaths: the entries to rename, files and directories apart
PlannedEntries(f, root, kind) ==
    {<<p, WithName(p, NewName(p))>> :
        p \in {q \in DOMAIN f : /\ IsUnder(q, root)
                                /\ should_process(q)
                                /\ NewName(q) # Basename(q)
                                /\ f[q].kind = kind}}

\* d[k] = v on a dict kept as a sequence of items
DictSet(d, k, v) ==
    IF \E i \in DOMAIN d : d[i][1] = k
    THEN [i \in DOMAIN d |-> IF d[i][1] = k THEN <<k, v>> ELSE d[i]]
    ELSE Append(d, <<k, v>>)

RECURSIVE DictUpdate(_, _)
DictUpdate(d, items) ==
    IF items = <<>> THEN d
    ELSE DictUpdate(DictSet(d, Head(items)[1], Head(items)[2]), Tail(items))

\* os.path.relpath(p, base) for p below base
RelPath(p, base) == Drop(p, Len(base) + 1)

\* rename_context: file_words_dict
RECURSIVE FileWordsDict(_)
FileWordsDict(items) ==
    IF items = <<>> THEN <<>>
    ELSE LET e == items[Len(items)] IN
         DictSet(FileWordsDict(SubSeq(items, 1, Len(items) - 1)),
                 Basename(e[1]), Basename(e[2]))

\* rename_context: dir_words_dict, then update(REPLACEMENT_RULES)
RECURSIVE DirEntries(_, _)
DirEntries(items, root) ==
    IF items = <<>> THEN <<>>
    ELSE LET e == items[Len(items)] IN
         DictSet(DirEntries(SubSeq(items, 1, Len(items) - 1), root),
                 RelPath(e[1], Dirname(root)),
                 apply_replacement_rules(RelPath(e[2], Dirname(root))))

DirWordsDict(items, root) == DictUpdate(DirEntries(items, root), REPLACEMENT_RULES)

frameRun == <<fs, denied, code_path, buffer_size, runNo,
              enc, text_files, tpc, pos, out, changed, orig, hist>>

\* __main__: get_rename_filepaths, then rename_context up to fileReplacer.run()
Plan ==
    /\ mainPc = "plan"
    /\ rename_files' \in SortedItems(PlannedEntries(fs, code_path, "file"))
    /\ rename_dirs' \in SortedItems(PlannedEntries(fs, code_path, "dir"))
    /\ words_dict' = FileWordsDict(rename_files')
    /\ mainPc' = "ctx1" /\ runPc' = "start"
    /\ UNCHANGED frameRun /\ UNCHANGED <<rpc, di, dres>>

\* rename_context: fileReplacer.run() has returned; up to dirReplacer.run()
CtxNext ==
    /\ mainPc = "ctx1" /\ runPc = "returned"
    /\ words_dict' = DirWordsDict(rename_dirs, code_path)
    /\ mainPc' = "ctx2" /\ runPc' = "start"
    /\ UNCHANGED frameRun /\ UNCHANGED renameVars

-----------------------------------------------------------------------------
(* rename_old2new.py: execution *)

\* max_workers of batch_rename_filename
BatchWorkers == 4

\* os.rename(old, new) raises
RenameRaises(f, old, new) ==
    \/ ~Exists(f, old)
    \/ old \in denied
    \/ ~IsDir(f, Dirname(new))
    \/ IsUnder(new, old)
    \/ IsDir(f, old) /\ IsFile(f, new)
    \/ IsFile(f, old) /\ IsDir(f, new)
    \/ IsDir(f, old) /\ IsDir(f, new) /\ new # old /\ Children(f, new) # {}

\* the file system after os.rename(old, new) went through
Moved(f, old, new) ==
    IF old = new THEN f
    ELSE LET sub == {q \in DOMAIN f : q = old \/ IsUnder(q, old)}
             keep == DOMAIN f \ (sub \cup {new})
             To(q) == new \o Drop(q, Len(old))
         IN  [q \in keep \cup {To(x) : x \in sub} |->
                 IF q \in keep THEN f[q] ELSE f[CHOOSE x \in sub : To(x) = q]]

\* the directories os.makedirs(d, exist_ok=True) creates
RECURSIVE MissingDirs(_, _)
MissingDirs(f, d) == IF Exists(f, d) THEN {} ELSE {d} \cup MissingDirs(f, Dirname(d))

RECURSIVE BlockedByFile(_, _)
BlockedByFile(f, d) ==
    IF d = <<>> THEN FALSE
    ELSE IF d \in DOMAIN f THEN f[d].kind = "file"
    ELSE BlockedByFile(f, Dirname(d))

\* rename_map of batch_rename_filename
RenameMapOld(i) == OsPathJoin(code_path, rename_files[i][1])

RenameMapNew(i) == OsPathJoin(code_path, rename_files[i][2])

RsRunning(i) == rpc[i] \in {"makedirs", "checknew", "remove", "rename"}

RsFinished(i) == rpc[i] \in {"true", "false"}

frameBatch == <<denied, mainPc, code_path, words_dict, buffer_size, runPc, runNo,
                enc, text_files, tpc, pos, out, changed, orig, hist,
                rename_files, rename_dirs, di, dres>>

\* __main__: dirReplacer.run() has returned; batch_rename_filename submits
\* one rename_single per item of rename_map
BatchStart ==
    /\ mainPc = "ctx2" /\ runPc = "returned"
    /\ mainPc' = "batch"
    /\ rpc' = [i \in DOMAIN rename_files |-> "queued"]
    /\ UNCHANGED <<words_dict, runPc>>
    /\ UNCHANGED frameRun /\ UNCHANGED <<rename_files, rename_dirs, di, dres>>

\* rename_single: if not os.path.exists(old_path): return False
RsCheckOld(i) ==
    /\ mainPc = "batch" /\ rpc[i] = "queued"
    /\ Cardinality({j \in DOMAIN rpc : RsRunning(j)}) < BatchWorkers
    /\ rpc' = [rpc EXCEPT ![i] = IF Exists(fs, RenameMapOld(i)) THEN "makedirs" ELSE "false"]
    /\ UNCHANGED fs /\ UNCHANGED frameBatch

\* rename_single: os.makedirs(os.path.dirname(new_path), exist_ok=True)
RsMakedirs(i) ==
    /\ mainPc = "batch" /\ rpc[i] = "makedirs"
    /\ LET d == Dirname(RenameMapNew(i)) IN
       IF BlockedByFile(fs, d)
       THEN /\ rpc' = [rpc EXCEPT ![i] = "false"]
            /\ UNCHANGED fs
       ELSE /\ rpc' = [rpc EXCEPT ![i] = "checknew"]
            /\ fs' = [q \in DOMAIN fs \cup MissingDirs(fs, d) |->
                         IF q \in DOMAIN fs THEN fs[q] ELSE DirNode]
    /\ UNCHANGED frameBatch

\* rename_single: if os.path.exists(new_path)
RsCheckNew(i) ==
    /\ mainPc = "batch" /\ rpc[i] = "checknew"
    /\ rpc' = [rpc EXCEPT ![i] = IF Exists(fs, RenameMapNew(i)) THEN "remove" ELSE "rename"]
    /\ UNCHANGED fs /\ UNCHANGED frameBatch

\* rename_single: os.remove(new_path)
RsRemove(i) ==
    /\ mainPc = "batch" /\ rpc[i] = "remove"
    /\ LET new == RenameMapNew(i) IN
       IF ~IsFile(fs, new) \/ new \in denied
       THEN /\ rpc' = [rpc EXCEPT ![i] = "false"]
            /\ UNCHANGED fs
       ELSE /\ rpc' = [rpc EXCEPT ![i] = "rename"]
            /\ fs' = [q \in DOMAIN fs \ {new} |-> fs[q]]
    /\ UNCHANGED frameBatch

\* rename_single: os.rename(old_path, new_path)
RsRename(i) ==
    /\ mainPc = "batch" /\ rpc[i] = "rename"
    /\ LET old == RenameMapOld(i)
           new == RenameMapNew(i)
       IN  IF RenameRaises(fs, old, new)
           THEN /\ rpc' = [rpc EXCEPT ![i] = "false"]
                /\ UNCHANGED fs
           ELSE /\ rpc' = [rpc EXCEPT ![i] = "true"]
                /\ fs' = Moved(fs, old, new)
    /\ UNCHANGED frameBatch

\* the except clause of serial_rename_dirname wraps the whole loop: an
\* error at entry i ends it
AfterError(i) == Len(rename_dirs) + 1

\* batch_rename_filename has every result; serial_rename_dirname adds the
\* root's own entry when the rules change code_path
BatchJoin ==
    /\ mainPc = "batch"
    /\ \A i \in DOMAIN rpc : RsFinished(i)
    /\ mainPc' = "serial"
    /\ LET recode_path == apply_replacement_rules(code_path) IN
       rename_dirs' = IF recode_path # code_path
                      THEN DictSet(rename_dirs, code_path, recode_path)
                      ELSE rename_dirs
    /\ di' = 1
    /\ dres' = [i \in DOMAIN rename_dirs' |-> "todo"]
    /\ UNCHANGED <<words_dict, runPc, rename_files, rpc>>
    /\ UNCHANGED frameRun

\* serial_rename_dirname: one turn of  for old, new in rename_dirs.items()
SerialStep ==
    /\ mainPc = "serial" /\ di <= Len(rename_dirs)
    /\ LET old == rename_dirs[di][1]
           new == rename_dirs[di][2]
       IN  IF old = new
           THEN /\ dres' = [dres EXCEPT ![di] = "same"]
                /\ di' = di + 1 /\ UNCHANGED fs
           ELSE IF ~Exists(fs, old)
           THEN /\ dres' = [dres EXCEPT ![di] = "missing"]
                /\ di' = di + 1 /\ UNCHANGED fs
           ELSE IF RenameRaises(fs, old, new)
           THEN /\ dres' = [dres EXCEPT ![di] = "raised"]
                /\ di' = AfterError(di) /\ UNCHANGED fs
           ELSE /\ dres' = [dres EXCEPT ![di] = "renamed"]
                /\ di' = di + 1
                /\ fs' = Moved(fs, old, new)
    /\ UNCHANGED <<mainPc, words_dict, runPc, rename_files, rename_dirs, rpc>>
    /\ UNCHANGED <<denied, code_path, buffer_size, runNo,
                   enc, text_files, tpc, pos, out, changed, orig, hist>>

\* serial_rename_dirname returns; sys.exit(0)
SerialEnd ==
    /\ mainPc = "serial" /\ di > Len(rename_dirs)
    /\ mainPc' = "exit"
    /\ UNCHANGED <<words_dict, runPc>>
    /\ UNCHANGED frameRun /\ UNCHANGED renameVars

-----------------------------------------------------------------------------
(* rename_old2new.py as a program, on the trees that are enumerated *)

Sub(d, n) == d \o <<SEP>> \o n

Txt_txt == <<".","t","x","t">>

RootCat == <<SEP>> \o Txt_Cat

\* [root, fs] of each tree
Trees ==
    { \* a directory and a file in it, both to rename
      [root |-> RootR,
       fs |-> (RootR :> DirNode)
           @@ (Sub(RootR, Txt_Cat) :> DirNode)
           @@ (Sub(Sub(RootR, Txt_Cat), Txt_Cat \o Txt_txt) :> FileNode(Txt_Cat \o Txt_txt))],
      \* a directory whose new name is longer, above a directory to rename
      [root |-> RootR,
       fs |-> (RootR :> DirNode)
           @@ (Sub(RootR, Txt_HelloWorld \o Txt_HelloWorld) :> DirNode)
           @@ (Sub(Sub(RootR, Txt_HelloWorld \o Txt_HelloWorld), Txt_Cat) :> DirNode)
           @@ (Sub(Sub(Sub(RootR, Txt_HelloWorld \o Txt_HelloWorld), Txt_Cat), <<"k">>)
                  :> FileNode(<<>>))],
      \* two files with one new name
      [root |-> RootR,
       fs |-> (RootR :> DirNode)
           @@ (Sub(RootR, Txt_Cat \o Txt_Dog) :> FileNode(Txt_Cat))
           @@ (Sub(RootR, Txt_Dog \o Txt_Cat) :> FileNode(Txt_Cat))],
      \* a directory whose new name is taken by a directory that is not empty
      [root |-> RootR,
       fs |-> (RootR :> DirNode)
           @@ (Sub(RootR, <<"z","z">>) :> DirNode)
           @@ (Sub(Sub(RootR, <<"z","z">>), Txt_Cat) :> DirNode)
           @@ (Sub(Sub(RootR, <<"z","z">>), Txt_Dog) :> DirNode)
           @@ (Sub(Sub(Sub(RootR, <<"z","z">>), Txt_Dog), <<"k">>) :> FileNode(<<>>))
           @@ (Sub(RootR, Txt_Cat) :> DirNode)],
      \* a file whose new name is taken by a directory, and another file
      [root |-> RootR,
       fs |-> (RootR :> DirNode)
           @@ (Sub(RootR, Txt_Cat) :> FileNode(Txt_Cat))
           @@ (Sub(RootR, Txt_Dog) :> DirNode)
           @@ (Sub(RootR, <<"x">>) :> DirNode)
           @@ (Sub(Sub(RootR, <<"x">>), Txt_Cat) :> FileNode(Txt_Cat))],
      \* a root the rules rename, holding a .git directory
      [root |-> RootCat,
       fs |-> (RootCat :> DirNode)
           @@ (Sub(RootCat, Txt_git) :> DirNode)
           @@ (Sub(Sub(RootCat, Txt_git), Txt_Cat) :> FileNode(Txt_Cat))] }

InitRename ==
    /\ \E t \in Trees :
         /\ code_path = t.root
         /\ fs = t.fs
         /\ denied \in {{}} \cup {{p} : p \in DOMAIN t.fs}
    /\ buffer_size = MainBufferSize
    /\ words_dict = <<>>
    /\ mainPc = "plan" /\ runPc = "idle" /\ runNo = 1
    /\ enc = EmptyFn /\ text_files = EmptyFn
    /\ tpc = EmptyFn /\ pos = EmptyFn /\ out = EmptyFn /\ changed = EmptyFn
    /\ orig = EmptyFn /\ hist = <<>>
    /\ rename_files = <<>> /\ rename_dirs = <<>> /\ rpc = <<>> /\ di = 0 /\ dres = <<>>

NextRename ==
    \/ Plan
    \/ RunStart
    \/ \E p \in DOMAIN enc : Classify(p)
    \/ Collect
    \/ \E p \in DOMAIN tpc : TaskOpen(p)
    \/ \E p \in DOMAIN tpc : TaskRead(p)
    \/ \E p \in DOMAIN tpc : TaskOpenWrite(p)
    \/ \E p \in DOMAIN tpc : TaskWrite(p)
    \/ RunReturn
    \/ CtxNext
    \/ BatchStart
    \/ \E i \in DOMAIN rpc : RsCheckOld(i)
    \/ \E i \in DOMAIN rpc : RsMakedirs(i)
    \/ \E i \in DOMAIN rpc : RsCheckNew(i)
    \/ \E i \in DOMAIN rpc : RsRemove(i)
    \/ \E i \in DOMAIN rpc : RsRename(i)
    \/ BatchJoin
    \/ SerialStep
    \/ SerialEnd

SpecRename == InitRename /\ [][NextRename]_vars

-----------------------------------------------------------------------------
(* What the claims speak of, stated apart from the operations above *)

\* the k-th of the consecutive bs-character chunks of a text
ChunkCount(text, bs) == (Len(text) + bs - 1) \div bs

ChunkAt(text, bs, k) == SubSeq(text, (k - 1) * bs + 1, Min(k * bs, Len(text)))

\* the rules applied one after another, in map order
RECURSIVE SeqRules(_, _)
SeqRules(t, rules) ==
    IF rules = <<>> THEN t
    ELSE SeqRules(PyReplace(t, Head(rules)[1], Head(rules)[2]), Tail(rules))

RECURSIVE ChunkwiseFrom(_, _, _, _)
ChunkwiseFrom(text, bs, rules, k) ==
    IF k > ChunkCount(text, bs) THEN <<>>
    ELSE SeqRules(ChunkAt(text, bs, k), rules) \o ChunkwiseFrom(text, bs, rules, k + 1)

Chunkwise(text, bs, rules) == ChunkwiseFrom(text, bs, rules, 1)

\* no chunk of the text the task reads from p contains a key
NoKeyInAnyChunk(p) ==
    LET text == Decode(orig[p]) IN
    \A k \in 1..ChunkCount(text, buffer_size) : \A i \in DOMAIN words_dict :
        ~Contains(ChunkAt(text, buffer_size, k), words_dict[i][1])

\* the task has read its file to the end
ReadToEnd(p) == tpc[p] \in {"unchanged", "wopen", "writing", "written"}

\* the task has opened, or is about to open, its file for writing
OpensForWriting(p) == tpc[p] \in {"wopen", "writing", "written"}

\* the first run() treated p to the end without an error
FirstRunClean(p) ==
    /\ Len(hist) >= 1
    /\ p \in DOMAIN hist[1].done
    /\ hist[1].done[p] \in {"unchanged", "written"}

InSecondRun == runNo = 2 /\ runPc \in {"collect", "process", "returned"}

NoValueContainsKey ==
    \A i, j \in DOMAIN words_dict : ~Contains(words_dict[i][2], words_dict[j][1])

KeyChars == UNION {Range(words_dict[i][1]) : i \in DOMAIN words_dict}

\* values are not empty, hold no carriage return and no character of any key
ValuesApart ==
    \A i \in DOMAIN words_dict :
        /\ words_dict[i][2] # <<>>
        /\ CR \notin Range(words_dict[i][2])
        /\ Range(words_dict[i][2]) \cap KeyChars = {}

SameLengths == \A i \in DOMAIN words_dict : Len(words_dict[i][1]) = Len(words_dict[i][2])

AllAscii(p) ==
    /\ Range(hist[1].orig[p]) \cap NonAscii = {}
    /\ \A i \in DOMAIN words_dict :
         (Range(words_dict[i][1]) \cup Range(words_dict[i][2])) \cap NonAscii = {}

C2_NoPartialWrite ==
    \A p \in DOMAIN tpc : Finished(p) => fs[p].content \in {orig[p], out[p]}

\* C3: whenever _process_file opens a file for writing, the accumulated
\* content differs from the content that was read.
C3_WriteOnlyIfChanged ==
    \A p \in DOMAIN tpc : tpc[p] \in {"writing", "written"} => out[p] # Decode(orig[p])

\* C4: the accumulated content is the concatenation, over the consecutive
\* buffer_size-character chunks of the text read, of each chunk after the
\* rules were applied to it one after another in map order; so A->B, B->C
\* turns "A" into "C" and the Hello map gives "hello everyone, hello!".
C4_ChunkwiseSequential ==
    \A p \in DOMAIN tpc : ReadToEnd(p) =>
        /\ out[p] = Chunkwise(Decode(orig[p]), buffer_size, words_dict)
        /\ (orig[p] = HelloWorldText /\ words_dict = HelloRules) => out[p] = HelloEveryoneText
        /\ (orig[p] = <<"A">> /\ words_dict = << <<<<"A">>, <<"B">>>>, <<<<"B">>, <<"C">>>> >>)
              => out[p] = <<"C">>

C4_Witness ==
    \E p \in DOMAIN tpc :
        /\ tpc[p] = "written"
        /\ Len(words_dict) = 2
        /\ ChunkCount(Decode(orig[p]), buffer_size) >= 2
        /\ out[p] # SeqRules(Decode(orig[p]), words_dict)

\* C5: a file none of whose chunks contains a key is never opened for
\* writing and keeps its content.
C5_NoOpPreserved ==
    \A p \in DOMAIN orig : NoKeyInAnyChunk(p) =>
        /\ IsFile(fs, p) /\ fs[p].content = orig[p]
        /\ p \in DOMAIN tpc => ~OpensForWriting(p)

C5_Witness ==
    \E p \in DOMAIN tpc :
        /\ tpc[p] = "unchanged"
        /\ NoKeyInAnyChunk(p)
        /\ \E i \in DOMAIN words_dict : Contains(Decode(orig[p]), words_dict[i][1])

\* C6: the map _collect_text_files returns holds no path classified binary or
\* None, and run() opens for writing only paths of that map: a file
\* classified binary or unknown is not among the files to process and keeps
\* its content.
C6_BinaryExcluded ==
    (RunActive /\ runPc \in {"process", "returned"}) =>
        /\ \A p \in DOMAIN text_files : enc[p] \notin {"binary", "None"}
        /\ \A p \in DOMAIN tpc : OpensForWriting(p) => p \in DOMAIN text_files
        /\ \A p \in DOMAIN enc : enc[p] \in {"binary", "None"} =>
              /\ p \notin DOMAIN tpc
              /\ fs[p].content = orig[p]

C6_Witness ==
    /\ RunActive /\ runPc = "returned"
    /\ \E p, q \in DOMAIN enc :
         /\ enc[p] \in {"binary", "None"}
         /\ \E i \in DOMAIN words_dict : Contains(orig[p], words_dict[i][1])
         /\ q \in DOMAIN tpc /\ tpc[q] = "written"

\* a file or directory rename has started
RenameStarted ==
    \/ \E i \in DOMAIN rpc : rpc[i] # "queued"
    \/ \E i \in DOMAIN dres : dres[i] # "todo"

\* C7: in the directory mapping a descendant comes before its ancestor, every
\* entry's old path exists when its turn comes, and at the end no old path
\* of the mapping remains.
C7_DescendantsFirst ==
    /\ \A i, j \in DOMAIN rename_dirs :
          i < j => ~IsUnder(rename_dirs[j][1], rename_dirs[i][1])
    /\ \A i \in DOMAIN dres : dres[i] # "missing"
    /\ mainPc = "exit" => \A i \in DOMAIN rename_dirs : ~Exists(fs, rename_dirs[i][1])

\* C8: no rename starts before every _process_file task of both run() calls
\* has finished, and no _process_file task starts before every
\* classification of its run() has finished.
C8_PhaseBarrier ==
    /\ RenameStarted =>
          /\ Len(hist) = 2
          /\ \A p \in DOMAIN tpc : tpc[p] \in {"unchanged", "written", "failed"}
    /\ (\E p \in DOMAIN tpc : tpc[p] # "queued") =>
          \A q \in DOMAIN enc : enc[q] # "pending"

C8_Witness ==
    /\ \E i \in DOMAIN rpc : rpc[i] = "rename"
    /\ Len(hist) = 2
    /\ \E p \in DOMAIN hist[2].done : hist[2].done[p] = "written"

\* C9: a failure on one entry does not stop the others: at the end every file
\* entry has its result and every directory entry whose source exists has
\* been attempted.
C9_BestEffort ==
    mainPc = "exit" =>
        /\ \A i \in DOMAIN rpc : rpc[i] \in {"true", "false"}
        /\ \A i \in DOMAIN dres : dres[i] = "todo" => ~Exists(fs, rename_dirs[i][1])

\* C10: no two rename_single tasks that run at the same time have a path in
\* common; in particular no two have the same destination.
C10_ExclusivePaths ==
    \A i, j \in DOMAIN rpc :
        (i # j /\ RsRunning(i) /\ RsRunning(j)) =>
            {RenameMapOld(i), RenameMapNew(i)} \cap {RenameMapOld(j), RenameMapNew(j)} = {}

=============================================================================
